---- MODULE Spec2Model ----
(***************************************************************************)
(* Model of the seller (Ozon) and market (Yandex Market) synchronisation   *)
(* scripts: catalog pagination (get_offer_ids), reconciliation             *)
(* (create_stocks, create_prices), price normalisation (price_conversion), *)
(* batching (divide) and the entry points that compose them.               *)
(*                                                                         *)
(* Conventions.                                                            *)
(*  - A Python str that the code takes apart (a price) is a sequence of    *)
(*    one-character strings; a str that the code only compares (a SKU, a   *)
(*    quantity token) is a TLA+ string.  The Cyrillic text of the source   *)
(*    is transliterated: the keys "Код", "Количество", "Цена" are the      *)
(*    fields Kod, Kolichestvo, Tsena, and "руб." is written "rub.".        *)
(*  - A spreadsheet cell is a Python int or a Python str; both are the     *)
(*    tagged records PyInt(n) and PyStr(s), and str() / int() are the      *)
(*    operators str and int below.                                         *)
(*  - A call that raises returns [raised |-> <exception name>, ...].       *)
(***************************************************************************)
EXTENDS Integers, Sequences, FiniteSets, TLC

VARIABLES
    entry,           \* the entry point this run executes
    pc,              \* its position
    watch_remnants,  \* the feed: the records download_stock returns
    catalog,         \* server side: channel -> the SKUs the marketplace lists
    signal,          \* server side: how the listing endpoint signals completion
    channel,         \* the channel the entry point is working on
    page,            \* get_offer_ids: the cursor (last_id / page)
    product_list,    \* get_offer_ids: the items accumulated so far
    offer_ids,       \* the caller's list of remote SKUs (a mutable Python list)
    stocks,          \* the stock entries create_stocks returned
    prices,          \* the price entries create_prices returned
    pending,         \* list(divide(...)): the batches not yet submitted
    log,             \* every request issued, in order, with its outcome
    report,          \* what the run printed or raised
    calls            \* the calls made so far, each with its arguments and result

vars == <<entry, pc, watch_remnants, catalog, signal, channel, page, product_list,
          offer_ids, stocks, prices, pending, log, report, calls>>

(***************************************************************************)
(* Bounds of the model.                                                    *)
(***************************************************************************)
MaxFeedLen == 2      \* records in a feed
MaxRemoteLen == 2    \* SKUs in a remote list
MaxQuantity == 20    \* largest integer a quantity cell spells
MaxClock == 1        \* readings of the wall clock
MaxListLen == 4      \* elements of a list given to divide
MaxSize == 5         \* slice sizes given to divide
MaxPriceLen == 3     \* characters of an enumerated price string
MaxPages == 3        \* page requests of one get_offer_ids call

(***************************************************************************)
(* Python values and built-ins.                                            *)
(***************************************************************************)
Range(s) == {s[i] : i \in DOMAIN s}

Min(a, b) == IF a < b THEN a ELSE b

PyStr(s) == [t |-> "str", s |-> s, n |-> 0]
PyInt(n) == [t |-> "int", s |-> "", n |-> n]

\* str(x): the decimal spelling of an int, a str unchanged.
str(x) == IF x.t = "int" THEN ToString(x.n) ELSE x.s

\* int(x) succeeds on an int and on a str that spells an integer.
IntLiterals == 0..MaxQuantity
CanInt(x) == x.t = "int" \/ \E k \in IntLiterals : ToString(k) = x.s
int(x) == IF x.t = "int" THEN x.n ELSE CHOOSE k \in IntLiterals : ToString(k) = x.s

\* x in lst
In(x, lst) == \E i \in DOMAIN lst : lst[i] = x

\* lst.remove(x): drops the first occurrence of x (x is in lst).
ListRemove(lst, x) ==
    LET k == CHOOSE i \in DOMAIN lst : lst[i] = x /\ \A j \in 1..(i - 1) : lst[j] # x
    IN  SubSeq(lst, 1, k - 1) \o SubSeq(lst, k + 1, Len(lst))

Digits == {"0", "1", "2", "3", "4", "5", "6", "7", "8", "9"}

DigitValue(c) == CHOOSE d \in 0..9 : ToString(d) = c

\* int(s) of a str of decimal digits; int("") raises ValueError.
RECURSIVE DigitsToInt(_)
DigitsToInt(s) ==
    IF s = <<>> THEN 0
    ELSE 10 * DigitsToInt(SubSeq(s, 1, Len(s) - 1)) + DigitValue(s[Len(s)])

(***************************************************************************)
(* seller.price_conversion: re.sub("[^0-9]", "", price.split(".")[0])      *)
(***************************************************************************)
\* price.split(".")[0]: the text before the first ".", all of it without one.
SplitFirst(price) ==
    IF \E i \in DOMAIN price : price[i] = "."
    THEN LET k == CHOOSE i \in DOMAIN price :
                      price[i] = "." /\ \A j \in 1..(i - 1) : price[j] # "."
         IN  SubSeq(price, 1, k - 1)
    ELSE price

SplitLast(price) ==
    IF \E i \in DOMAIN price : price[i] = "."
    THEN LET k == CHOOSE i \in DOMAIN price :
                      price[i] = "." /\ \A j \in (i + 1)..Len(price) : price[j] # "."
         IN  SubSeq(price, 1, k - 1)
    ELSE price

IsDigit(c) == c \in Digits

price_conversion_rsplit(price) == SelectSeq(SplitLast(price), IsDigit)

price_conversion(price) == SelectSeq(SplitFirst(price), IsDigit)

(***************************************************************************)
(* seller.divide: for i in range(0, len(lst), n): yield lst[i: i + n]      *)
(* list(divide(lst, n)) for n >= 1, the only sizes the callers pass.       *)
(***************************************************************************)
divide_merge_tail(lst, n) ==
    LET count == IF Len(lst) <= n THEN (IF Len(lst) = 0 THEN 0 ELSE 1) ELSE Len(lst) \div n
    IN  [k \in 1..count |->
            SubSeq(lst, (k - 1) * n + 1, IF k = count THEN Len(lst) ELSE k * n)]

divide(lst, n) ==
    LET count == (Len(lst) + n - 1) \div n        \* len(range(0, len(lst), n))
    IN  [k \in 1..count |-> SubSeq(lst, (k - 1) * n + 1, Min(k * n, Len(lst)))]

(***************************************************************************)
(* seller.create_stocks                                                    *)
(***************************************************************************)
Returned(value, ids) == [raised |-> "", value |-> value, offer_ids |-> ids]
Raised(exc, ids) == [raised |-> exc, value |-> <<>>, offer_ids |-> ids]

\* Lines 218-224: the count of a matched record; int() raises on other text.
seller_stock_raises(watch) ==
    LET count == str(watch.Kolichestvo)
    IN  count # ">10" /\ count # "1" /\ ~CanInt(watch.Kolichestvo)

seller_stock_threshold(watch) ==
    LET count == str(watch.Kolichestvo)
    IN  IF count = ">10" THEN 100
        ELSE IF count = "1" THEN 0
        ELSE IF int(watch.Kolichestvo) > 10 THEN 100 ELSE int(watch.Kolichestvo)

seller_stock(watch) ==
    LET count == str(watch.Kolichestvo)
    IN  IF count = ">10" THEN 100
        ELSE IF count = "1" THEN 0
        ELSE int(watch.Kolichestvo)

\* The mutant of the first loop: the matched SKU stays in offer_ids.
RECURSIVE seller_stocks_loop_keep(_, _, _, _)
seller_stocks_loop_keep(feed, i, ids, acc) ==
    IF i > Len(feed) THEN Returned(acc, ids)
    ELSE LET watch == feed[i] IN
         IF In(str(watch.Kod), ids)
         THEN IF seller_stock_raises(watch) THEN Raised("ValueError", ids)
              ELSE seller_stocks_loop_keep(feed, i + 1, ids,
                       Append(acc, [offer_id |-> str(watch.Kod),
                                    stock |-> seller_stock(watch)]))
         ELSE seller_stocks_loop_keep(feed, i + 1, ids, acc)

\* Lines 216-226: the pass over the feed from record i on, with the list as
\* it is (ids) and the entries appended so far (acc).
RECURSIVE seller_stocks_loop(_, _, _, _)
seller_stocks_loop(feed, i, ids, acc) ==
    IF i > Len(feed) THEN Returned(acc, ids)
    ELSE LET watch == feed[i] IN
         IF In(str(watch.Kod), ids)
         THEN IF seller_stock_raises(watch) THEN Raised("ValueError", ids)
              ELSE seller_stocks_loop(feed, i + 1, ListRemove(ids, str(watch.Kod)),
                       Append(acc, [offer_id |-> str(watch.Kod),
                                    stock |-> seller_stock(watch)]))
         ELSE seller_stocks_loop(feed, i + 1, ids, acc)

\* Lines 215-230.  The list the caller passed is the list the loop mutates.
seller_create_stocks(feed, ids) ==
    LET first == seller_stocks_loop(feed, 1, ids, <<>>)
    IN  IF first.raised # "" THEN first
        ELSE Returned(first.value \o
                      [k \in DOMAIN first.offer_ids |->
                          [offer_id |-> first.offer_ids[k], stock |-> 0]],
                      first.offer_ids)

(***************************************************************************)
(* seller.create_prices                                                    *)
(***************************************************************************)
seller_create_prices(feed, ids) ==
    LET matched == SelectSeq(feed, LAMBDA watch : In(str(watch.Kod), ids))
    IN  Returned([k \in DOMAIN matched |->
                     [auto_action_enabled |-> "UNKNOWN",
                      currency_code |-> "RUB",
                      offer_id |-> str(matched[k].Kod),
                      old_price |-> "0",
                      price |-> price_conversion(matched[k].Tsena)]],
                 ids)

(***************************************************************************)
(* market.create_stocks: the same pass, the entry in the market's schema,  *)
(* stamped with date, the reading of datetime.utcnow() the call takes      *)
(* (whole seconds; its ISO text is not taken apart anywhere).              *)
(***************************************************************************)
market_stock_raises(watch) ==
    LET count == str(watch.Kolichestvo)
    IN  count # ">10" /\ count # "1" /\ ~CanInt(watch.Kolichestvo)

market_stock(watch) ==
    LET count == str(watch.Kolichestvo)
    IN  IF count = ">10" THEN 100
        ELSE IF count = "1" THEN 0
        ELSE int(watch.Kolichestvo)

market_entry(sku, warehouse_id, count, date) ==
    [sku |-> sku,
     warehouseId |-> warehouse_id,
     items |-> <<[count |-> count, type |-> "FIT", updatedAt |-> date]>>]

RECURSIVE market_stocks_loop(_, _, _, _, _, _)
market_stocks_loop(feed, i, ids, acc, warehouse_id, date) ==
    IF i > Len(feed) THEN Returned(acc, ids)
    ELSE LET watch == feed[i] IN
         IF In(str(watch.Kod), ids)
         THEN IF market_stock_raises(watch) THEN Raised("ValueError", ids)
              ELSE market_stocks_loop(feed, i + 1, ListRemove(ids, str(watch.Kod)),
                       Append(acc, market_entry(str(watch.Kod), warehouse_id,
                                                market_stock(watch), date)),
                       warehouse_id, date)
         ELSE market_stocks_loop(feed, i + 1, ids, acc, warehouse_id, date)

market_create_stocks(feed, ids, warehouse_id, date) ==
    LET first == market_stocks_loop(feed, 1, ids, <<>>, warehouse_id, date)
    IN  IF first.raised # "" THEN first
        ELSE Returned(first.value \o
                      [k \in DOMAIN first.offer_ids |->
                          market_entry(first.offer_ids[k], warehouse_id, 0, date)],
                      first.offer_ids)

(***************************************************************************)
(* market.create_prices: int(price_conversion(...)) raises on "".          *)
(***************************************************************************)
market_create_prices(feed, ids) ==
    LET matched == SelectSeq(feed, LAMBDA watch : In(str(watch.Kod), ids))
    IN  IF \E k \in DOMAIN matched : price_conversion(matched[k].Tsena) = <<>>
        THEN Raised("ValueError", ids)
        ELSE Returned([k \in DOMAIN matched |->
                          [id |-> str(matched[k].Kod),
                           price |-> [value |-> DigitsToInt(price_conversion(matched[k].Tsena)),
                                      currencyId |-> "RUR"]]],
                      ids)

(***************************************************************************)
(* Inputs.                                                                 *)
(***************************************************************************)
SeqsUpTo(S, n) == UNION {[1..k -> S] : k \in 0..n}

\* Price cells: "100.00 x", "50.00 x", "5'990.00 rub.", "100 rub.", ".99"
Price100x == <<"1", "0", "0", ".", "0", "0", " ", "x">>
Price50x == <<"5", "0", ".", "0", "0", " ", "x">>
Price5990 == <<"5", "'", "9", "9", "0", ".", "0", "0", " ", "r", "u", "b", ".">>
Price5990_99 == <<"5", "'", "9", "9", "0", ".", "9", "9", " ", "r", "u", "b", ".">>
Price100rub == <<"1", "0", "0", " ", "r", "u", "b", ".">>
PriceNoDigit == <<".", "9", "9">>

Record(code, quantity, price) == [Kod |-> code, Kolichestvo |-> quantity, Tsena |-> price]

\* The rows a feed is made of: every quantity token, str and int cells, a
\* repeated code, a price with no digit before its ".", a quantity that is
\* no integer.
FeedRecords ==
    { Record(PyStr("A1"), PyStr(">10"), Price100x),
      Record(PyStr("A3"), PyStr("1"), Price50x),
      Record(PyStr("A1"), PyInt(7), Price5990),
      Record(PyInt(15), PyStr("15"), Price100rub),
      Record(PyStr("A3"), PyStr("0"), PriceNoDigit),
      Record(PyStr("A3"), PyStr(""), Price50x) }

Skus == {"A1", "A3", "15"}

Feeds == SeqsUpTo(FeedRecords, MaxFeedLen)
RemoteLists == SeqsUpTo(Skus, MaxRemoteLen)
Clock == 0..MaxClock

Channels == {"seller", "fbs", "dbs"}

\* env.str("WAREHOUSE_FBS_ID"), env.str("WAREHOUSE_DBS_ID")
warehouse_id(ch) == IF ch = "fbs" THEN "WAREHOUSE_FBS_ID" ELSE "WAREHOUSE_DBS_ID"

(***************************************************************************)
(* The state of a run that has not started.                                *)
(***************************************************************************)
Idle ==
    /\ pc = "start"
    /\ channel = "none"
    /\ page = ""
    /\ product_list = <<>>
    /\ stocks = <<>>
    /\ prices = <<>>
    /\ pending = <<>>
    /\ log = <<>>
    /\ report = ""
    /\ calls = <<>>

NoServer ==
    /\ catalog = [ch \in Channels |-> <<>>]
    /\ signal = "none"

runVars == <<entry, pc, catalog, signal, channel, page, product_list, stocks, prices,
             pending, log, report>>

(***************************************************************************)
(* ReconSpec: a caller that holds a feed and one list of remote SKUs and    *)
(* calls the reconciliation functions on them, twice in succession.        *)
(***************************************************************************)
Call(fn, date, ret) ==
    [fn |-> fn, offer_ids |-> offer_ids, date |-> date, ret |-> ret]

LastDate == IF calls = <<>> THEN 0 ELSE calls[Len(calls)].date

ReconInit ==
    /\ entry = "reconcile"
    /\ watch_remnants \in Feeds
    /\ offer_ids \in RemoteLists
    /\ NoServer
    /\ Idle

CallSellerCreateStocks ==
    /\ entry = "reconcile" /\ Len(calls) < 2
    /\ LET ret == seller_create_stocks(watch_remnants, offer_ids) IN
         /\ calls' = Append(calls, Call("seller.create_stocks", LastDate, ret))
         /\ offer_ids' = ret.offer_ids
    /\ UNCHANGED <<watch_remnants, runVars>>

CallSellerCreatePrices ==
    /\ entry = "reconcile" /\ Len(calls) < 2
    /\ LET ret == seller_create_prices(watch_remnants, offer_ids) IN
         /\ calls' = Append(calls, Call("seller.create_prices", LastDate, ret))
         /\ offer_ids' = ret.offer_ids
    /\ UNCHANGED <<watch_remnants, runVars>>

CallMarketCreateStocks ==
    /\ entry = "reconcile" /\ Len(calls) < 2
    /\ \E date \in Clock :
         /\ date >= LastDate
         /\ LET ret == market_create_stocks(watch_remnants, offer_ids,
                                            warehouse_id("fbs"), date) IN
              /\ calls' = Append(calls, Call("market.create_stocks", date, ret))
              /\ offer_ids' = ret.offer_ids
    /\ UNCHANGED <<watch_remnants, runVars>>

CallMarketCreatePrices ==
    /\ entry = "reconcile" /\ Len(calls) < 2
    /\ LET ret == market_create_prices(watch_remnants, offer_ids) IN
         /\ calls' = Append(calls, Call("market.create_prices", LastDate, ret))
         /\ offer_ids' = ret.offer_ids
    /\ UNCHANGED <<watch_remnants, runVars>>

ReconNext ==
    \/ CallSellerCreateStocks
    \/ CallSellerCreatePrices
    \/ CallMarketCreateStocks
    \/ CallMarketCreatePrices

ReconSpec == ReconInit /\ [][ReconNext]_vars

(***************************************************************************)
(* Reading the calls.                                                      *)
(***************************************************************************)
IsStocks(fn) == fn \in {"seller.create_stocks", "market.create_stocks"}
IsPrices(fn) == fn \in {"seller.create_prices", "market.create_prices"}

\* The calls of create_stocks / create_prices that returned.
StockCalls == {i \in DOMAIN calls : IsStocks(calls[i].fn) /\ calls[i].ret.raised = ""}
PriceCalls == {i \in DOMAIN calls : IsPrices(calls[i].fn) /\ calls[i].ret.raised = ""}

StockSku(fn, e) == IF fn = "seller.create_stocks" THEN e.offer_id ELSE e.sku
StockCount(fn, e) == IF fn = "seller.create_stocks" THEN e.stock ELSE e.items[1].count
PriceSku(fn, e) == IF fn = "seller.create_prices" THEN e.offer_id ELSE e.id

Occurrences(lst, x) == Cardinality({i \in DOMAIN lst : lst[i] = x})

\* The j-th smallest member of a set of indices.
Nth(S, j) == CHOOSE x \in S : Cardinality({y \in S : y < x}) = j - 1

\* The quantity mapping as the specification words it.
QuantityMapping(q) ==
    IF str(q) = ">10" THEN 100
    ELSE IF str(q) = "1" THEN 0
    ELSE CHOOSE k \in IntLiterals : ToString(k) = str(q)

FeedIndices(s) == {i \in DOMAIN watch_remnants : str(watch_remnants[i].Kod) = s}

(***************************************************************************)
(* C1 as stated: create_stocks returns exactly len(remoteSkus) entries,    *)
(* their SKU set is the set of remote SKUs, and no SKU appears in more     *)
(* than one entry, also when the remote list repeats a SKU.                *)
(***************************************************************************)
C1_NoSkuTwice ==
    \A c \in StockCalls :
        LET fn == calls[c].fn
            value == calls[c].ret.value
        IN  /\ Len(value) = Len(calls[c].offer_ids)
            /\ {StockSku(fn, value[i]) : i \in DOMAIN value} = Range(calls[c].offer_ids)
            /\ \A i, j \in DOMAIN value :
                   i # j => StockSku(fn, value[i]) # StockSku(fn, value[j])

(***************************************************************************)
(* C1 amended: create_stocks returns exactly len(remoteSkus) entries,      *)
(* their SKU set is the set of remote SKUs, and every SKU appears in as    *)
(* many entries as it occurs in the remote list (in one entry when the     *)
(* list does not repeat it).                                               *)
(***************************************************************************)
C1_OneEntryPerListedSku ==
    \A c \in StockCalls :
        LET fn == calls[c].fn
            value == calls[c].ret.value
            skus == [i \in DOMAIN value |-> StockSku(fn, value[i])]
        IN  /\ Len(value) = Len(calls[c].offer_ids)
            /\ Range(skus) = Range(calls[c].offer_ids)
            /\ \A s \in Skus : Occurrences(skus, s) = Occurrences(calls[c].offer_ids, s)

\* A call on a list that repeats a SKU, with a feed that repeats a code of
\* the list, has returned.
C1_Witness ==
    \E c \in StockCalls :
        /\ \E i, j \in DOMAIN calls[c].offer_ids :
               i # j /\ calls[c].offer_ids[i] = calls[c].offer_ids[j]
        /\ \E s \in Range(calls[c].offer_ids) : Cardinality(FeedIndices(s)) = 2
        /\ Len(calls[c].ret.value) = 2

(***************************************************************************)
(* C3 as stated: the count of the stock entry of a remote SKU s is the     *)
(* mapping of the quantity of a feed record with code s when there is      *)
(* one (">10" -> 100, "1" -> 0, n -> n), and 0 when there is none.         *)
(***************************************************************************)
C3_CountOfEverySku ==
    \A c \in StockCalls :
        LET fn == calls[c].fn
            value == calls[c].ret.value
        IN  \A i \in DOMAIN value :
                LET s == StockSku(fn, value[i]) IN
                IF FeedIndices(s) # {}
                THEN \E r \in FeedIndices(s) :
                         /\ CanInt(watch_remnants[r].Kolichestvo)
                              \/ str(watch_remnants[r].Kolichestvo) = ">10"
                         /\ StockCount(fn, value[i])
                              = QuantityMapping(watch_remnants[r].Kolichestvo)
                ELSE StockCount(fn, value[i]) = 0

(***************************************************************************)
(* C3 amended: when the remote list names s m times and k feed records     *)
(* have code s, the entries of s are, in order, the mapped quantities of   *)
(* the first min(m, k) of those records followed by m - min(m, k) entries  *)
(* of count 0.  A SKU listed once gets the mapping of the first feed       *)
(* record with its code, and 0 when no record has it.                      *)
(***************************************************************************)
C3_CountPerOccurrence ==
    \A c \in StockCalls :
        LET fn == calls[c].fn
            value == calls[c].ret.value
        IN  \A s \in Range(calls[c].offer_ids) :
                LET entries == {i \in DOMAIN value : StockSku(fn, value[i]) = s}
                    records == FeedIndices(s)
                IN  /\ Cardinality(entries) = Occurrences(calls[c].offer_ids, s)
                    /\ \A j \in 1..Cardinality(entries) :
                           StockCount(fn, value[Nth(entries, j)]) =
                               IF j <= Cardinality(records)
                               THEN QuantityMapping(watch_remnants[Nth(records, j)].Kolichestvo)
                               ELSE 0

\* A call has mapped "15" to 15 and ">10" to 100.
C3_Witness ==
    \E c \in StockCalls :
        LET fn == calls[c].fn
            value == calls[c].ret.value
        IN  /\ \E i \in DOMAIN value :
                   StockSku(fn, value[i]) = "15" /\ StockCount(fn, value[i]) = 15
            /\ \E i \in DOMAIN value :
                   StockSku(fn, value[i]) = "A1" /\ StockCount(fn, value[i]) = 100

(***************************************************************************)
(* C9: when a matched record's price has no digit before its first ".",    *)
(* price_conversion gives the empty result and create_prices emits no      *)
(* entry with an empty or zero price for that SKU.                         *)
(***************************************************************************)
NoDigitBeforeDot(price) ==
    \A i \in DOMAIN price : IsDigit(price[i]) => \E j \in 1..(i - 1) : price[j] = "."

C9_NoEmptyPriceEmitted ==
    \A c \in PriceCalls :
        \A r \in DOMAIN watch_remnants :
            LET watch == watch_remnants[r] IN
            (In(str(watch.Kod), calls[c].offer_ids) /\ NoDigitBeforeDot(watch.Tsena)) =>
                /\ price_conversion(watch.Tsena) = <<>>
                /\ \A i \in DOMAIN calls[c].ret.value :
                       LET e == calls[c].ret.value[i] IN
                       PriceSku(calls[c].fn, e) = str(watch.Kod) =>
                           IF calls[c].fn = "seller.create_prices"
                           THEN e.price # <<>> /\ e.price # <<"0">>
                           ELSE e.price.value # 0

(***************************************************************************)
(* C10: two calls in succession of the same function with the same feed    *)
(* and the same list of remote SKUs (and the same clock reading) return    *)
(* identical lists.                                                        *)
(***************************************************************************)
C10_SecondCallSameResult ==
    (Len(calls) = 2 /\ calls[1].fn = calls[2].fn /\ calls[1].date = calls[2].date) =>
        /\ calls[1].ret.raised = calls[2].ret.raised
        /\ calls[1].ret.value = calls[2].ret.value

(***************************************************************************)
(* PureSpec: one call of divide or of price_conversion on an input drawn   *)
(* from the bounded sets below.                                            *)
(***************************************************************************)
DivideLists == SeqsUpTo({1, 2}, MaxListLen) \cup {<<1, 2, 3, 4, 5>>}
DivideSizes == 1..MaxSize

PriceChars == {"5", "0", ".", "'", "x"}
PriceStrings ==
    SeqsUpTo(PriceChars, MaxPriceLen)
        \cup {Price100x, Price50x, Price5990, Price5990_99, Price100rub, PriceNoDigit}

PureCall(fn, lst, n, price) ==
    [fn |-> fn, lst |-> lst, n |-> n, price |-> price, returned |-> FALSE, ret |-> <<>>]

PureInit ==
    /\ entry = "pure"
    /\ watch_remnants = <<>>
    /\ offer_ids = <<>>
    /\ NoServer
    /\ pc = "start" /\ channel = "none" /\ page = "" /\ product_list = <<>>
    /\ stocks = <<>> /\ prices = <<>> /\ pending = <<>> /\ log = <<>> /\ report = ""
    /\ \/ \E lst \in DivideLists, n \in DivideSizes :
              calls = <<PureCall("divide", lst, n, <<>>)>>
       \/ \E price \in PriceStrings :
              calls = <<PureCall("price_conversion", <<>>, 1, price)>>

CallDivide ==
    /\ entry = "pure"
    /\ calls[1].fn = "divide" /\ ~calls[1].returned
    /\ calls' = <<[calls[1] EXCEPT !.returned = TRUE,
                                   !.ret = divide(calls[1].lst, calls[1].n)]>>
    /\ UNCHANGED <<watch_remnants, offer_ids, runVars>>

CallPriceConversion ==
    /\ entry = "pure"
    /\ calls[1].fn = "price_conversion" /\ ~calls[1].returned
    /\ calls' = <<[calls[1] EXCEPT !.returned = TRUE,
                                   !.ret = price_conversion(calls[1].price)]>>
    /\ UNCHANGED <<watch_remnants, offer_ids, runVars>>

PureNext == CallDivide \/ CallPriceConversion

PureSpec == PureInit /\ [][PureNext]_vars

RECURSIVE Flatten(_)
Flatten(ss) == IF ss = <<>> THEN <<>> ELSE Head(ss) \o Flatten(Tail(ss))

C7_DigitsBeforeFirstDot ==
    (calls[1].fn = "price_conversion" /\ calls[1].returned) =>
        LET price == calls[1].price
            ret == calls[1].ret
            dots == {i \in DOMAIN price : price[i] = "."}
            end == IF dots = {} THEN Len(price) + 1
                   ELSE CHOOSE i \in dots : \A j \in dots : i <= j
            kept == {i \in 1..(end - 1) : price[i] \in Digits}
        IN  /\ Len(ret) = Cardinality(kept)
            /\ \A j \in DOMAIN ret : ret[j] = price[Nth(kept, j)]
            /\ price = Price5990 => ret = <<"5", "9", "9", "0">>
            /\ price = Price5990_99 => ret = <<"5", "9", "9", "0">>
            /\ price = Price100rub => ret = <<"1", "0", "0">>

\* "5'990.99 rub." has been converted to 5990.
C7_Witness ==
    /\ calls[1].fn = "price_conversion" /\ calls[1].returned
    /\ calls[1].price = Price5990_99
    /\ calls[1].ret = <<"5", "9", "9", "0">>

(***************************************************************************)
(* The listing endpoints (external).  A channel's catalog is served in     *)
(* order, at most limit items a page and at least one while any remain.    *)
(* The cursor a response carries is the position reached; "" asks for the  *)
(* first page.  signal says how the endpoint marks the last page:          *)
(*   "total"  - every response carries total, the size of the catalog      *)
(*              (the cursor is never empty)                                *)
(*   "cursor" - the last response carries an empty next cursor (no total)  *)
(*   "both"   - both                                                       *)
(***************************************************************************)
Signals == {"total", "cursor", "both"}

Position(ch, cursor) ==
    IF cursor = "" THEN 0
    ELSE CHOOSE k \in 0..Len(catalog[ch]) : ToString(k) = cursor

\* The numbers of items the endpoint may put on the page asked for.
PageSizes(ch, cursor, limit) ==
    LET remaining == Len(catalog[ch]) - Position(ch, cursor)
    IN  IF remaining = 0 THEN {0} ELSE 1..Min(limit, remaining)

Response(ch, cursor, size) ==
    LET from == Position(ch, cursor)
        last == from + size = Len(catalog[ch])
    IN  [items |-> SubSeq(catalog[ch], from + 1, from + size),
         has_total |-> signal \in {"total", "both"},
         total |-> Len(catalog[ch]),
         next |-> IF last /\ signal \in {"cursor", "both"} THEN "" ELSE ToString(from + size)]

(***************************************************************************)
(* Exceptions.                                                             *)
(***************************************************************************)
TransportErrors == {"ReadTimeout", "ConnectionError", "HTTPError"}

\* The except clauses of main (seller.py 365-370, market.py 349-354).
Printed(exc) ==
    IF exc = "ReadTimeout" THEN "timeout"
    ELSE IF exc = "ConnectionError" THEN "connection error"
    ELSE "ERROR_2"

\* Is the statement at pc inside main's try block?
InTry ==
    \/ entry = "seller.main"
    \/ entry = "market.main" /\ pc # "download_stock"

\* An exception at pc: main prints and ends, any other entry point raises.
Throw(exc) ==
    /\ pc' = IF InTry THEN "done" ELSE "raised"
    /\ report' = IF InTry THEN Printed(exc) ELSE exc

Request(op, arg, ok) == [ch |-> channel, op |-> op, arg |-> arg, ok |-> ok]

PageRequests == {i \in DOMAIN log : log[i].op = "get_product_list" /\ log[i].ch = channel}

(***************************************************************************)
(* The entry points.                                                       *)
(***************************************************************************)
Mains == {"seller.main", "market.main"}
SellerEntries == {"seller.main", "seller.upload_prices", "seller.upload_stocks",
                  "seller.get_offer_ids"}
MarketEntries == {"market.main", "market.upload_prices", "market.upload_stocks",
                  "market.get_offer_ids"}

\* The statement that follows get_offer_ids in each entry point.
AfterOfferIds ==
    IF entry = "seller.main" THEN "download_stock"
    ELSE IF entry \in {"market.main", "seller.upload_stocks", "market.upload_stocks"}
         THEN "create_stocks"
    ELSE IF entry \in {"seller.upload_prices", "market.upload_prices"} THEN "create_prices"
    ELSE "done"

(***************************************************************************)
(* get_offer_ids: one turn of the while loop with a page that arrived.     *)
(***************************************************************************)
\* seller.py 83: if total == len(product_list): break
seller_break_on_page(some_prod, extended) ==
    some_prod.has_total /\ some_prod.total = Len(some_prod.items)

seller_break(some_prod, extended) ==
    some_prod.has_total /\ some_prod.total = Len(extended)

\* market.py 160-161: page = ...get("nextPageToken"); if not page: break
market_break(some_prod) == some_prod.next = ""

\* seller.py 76-88.
SellerGetProductList ==
    /\ entry \in SellerEntries /\ pc = "get_offer_ids"
    /\ Cardinality(PageRequests) < MaxPages
    /\ \E size \in PageSizes(channel, page, 1000) :
         LET some_prod == Response(channel, page, size)
             items == [i \in DOMAIN some_prod.items |-> [offer_id |-> some_prod.items[i]]]
             extended == product_list \o items
         IN  /\ product_list' = extended
             /\ page' = some_prod.next
             /\ log' = Append(log, Request("get_product_list", page, TRUE))
             /\ IF seller_break(some_prod, extended)
                THEN /\ offer_ids' = [i \in DOMAIN extended |-> extended[i].offer_id]
                     /\ pc' = AfterOfferIds
                     /\ calls' = IF entry = "seller.get_offer_ids"
                                 THEN <<[fn |-> entry,
                                         ret |-> [i \in DOMAIN extended |-> extended[i].offer_id]]>>
                                 ELSE calls
                ELSE UNCHANGED <<offer_ids, pc, calls>>
    /\ UNCHANGED <<entry, watch_remnants, catalog, signal, channel, stocks, prices,
                   pending, report>>

\* market.py 155-166.
MarketGetProductList ==
    /\ entry \in MarketEntries /\ pc = "get_offer_ids"
    /\ Cardinality(PageRequests) < MaxPages
    /\ \E size \in PageSizes(channel, page, 200) :
         LET some_prod == Response(channel, page, size)
             items == [i \in DOMAIN some_prod.items |->
                          [offer |-> [shopSku |-> some_prod.items[i]]]]
             extended == product_list \o items
         IN  /\ product_list' = extended
             /\ page' = some_prod.next
             /\ log' = Append(log, Request("get_product_list", page, TRUE))
             /\ IF market_break(some_prod)
                THEN /\ offer_ids' = [i \in DOMAIN extended |-> extended[i].offer.shopSku]
                     /\ pc' = AfterOfferIds
                     /\ calls' = IF entry = "market.get_offer_ids"
                                 THEN <<[fn |-> entry,
                                         ret |-> [i \in DOMAIN extended |->
                                                     extended[i].offer.shopSku]]>>
                                 ELSE calls
                ELSE UNCHANGED <<offer_ids, pc, calls>>
    /\ UNCHANGED <<entry, watch_remnants, catalog, signal, channel, stocks, prices,
                   pending, report>>

\* response.raise_for_status() or the transport raises in get_product_list.
GetProductListFails ==
    /\ pc = "get_offer_ids"
    /\ Cardinality(PageRequests) < MaxPages
    /\ \E exc \in TransportErrors :
         /\ log' = Append(log, Request("get_product_list", page, FALSE))
         /\ Throw(exc)
    /\ UNCHANGED <<entry, watch_remnants, catalog, signal, channel, page, product_list,
                   offer_ids, stocks, prices, pending, calls>>

(***************************************************************************)
(* download_stock (external): the feed arrives, or the download raises.    *)
(***************************************************************************)
DownloadStock ==
    /\ entry \in Mains /\ pc = "download_stock"
    /\ pc' = IF entry = "seller.main" THEN "create_stocks" ELSE "get_offer_ids"
    /\ UNCHANGED <<entry, watch_remnants, catalog, signal, channel, page, product_list,
                   offer_ids, stocks, prices, pending, log, report, calls>>

DownloadStockFails ==
    /\ entry \in Mains /\ pc = "download_stock"
    /\ \E exc \in TransportErrors : Throw(exc)
    /\ UNCHANGED <<entry, watch_remnants, catalog, signal, channel, page, product_list,
                   offer_ids, stocks, prices, pending, log, calls>>

(***************************************************************************)
(* stocks = create_stocks(...); list(divide(stocks, size))                 *)
(***************************************************************************)
\* seller.py 358-359 (main) and 343-344 (upload_stocks).
SellerCreateStocks ==
    /\ entry \in SellerEntries /\ pc = "create_stocks"
    /\ LET ret == seller_create_stocks(watch_remnants, offer_ids) IN
         /\ offer_ids' = ret.offer_ids
         /\ IF ret.raised # ""
            THEN Throw(ret.raised) /\ UNCHANGED <<stocks, pending>>
            ELSE /\ stocks' = ret.value
                 /\ pending' = divide(ret.value, 100)
                 /\ pc' = "update_stocks"
                 /\ UNCHANGED report
    /\ UNCHANGED <<entry, watch_remnants, catalog, signal, channel, page, product_list,
                   prices, log, calls>>

\* market.py 335-336, 344-345 (main) and 313-314 (upload_stocks).
MarketCreateStocks ==
    /\ entry \in MarketEntries /\ pc = "create_stocks"
    /\ \E date \in Clock :
         LET ret == market_create_stocks(watch_remnants, offer_ids,
                                         warehouse_id(channel), date) IN
         /\ offer_ids' = ret.offer_ids
         /\ IF ret.raised # ""
            THEN Throw(ret.raised) /\ UNCHANGED <<stocks, pending>>
            ELSE /\ stocks' = ret.value
                 /\ pending' = divide(ret.value, 2000)
                 /\ pc' = "update_stocks"
                 /\ UNCHANGED report
    /\ UNCHANGED <<entry, watch_remnants, catalog, signal, channel, page, product_list,
                   prices, log, calls>>

(***************************************************************************)
(* for some_stock in list(divide(...)): update_stocks(some_stock, ...)     *)
(***************************************************************************)
UpdateStocks ==
    /\ pc = "update_stocks" /\ pending # <<>>
    /\ log' = Append(log, Request("update_stocks", Head(pending), TRUE))
    /\ pending' = Tail(pending)
    /\ UNCHANGED <<entry, pc, watch_remnants, catalog, signal, channel, page,
                   product_list, offer_ids, stocks, prices, report, calls>>

\* The mutant: the failure is swallowed and the loop goes on to the next batch.
UpdateStocksFails_Continue ==
    /\ pc = "update_stocks" /\ pending # <<>>
    /\ log' = Append(log, Request("update_stocks", Head(pending), FALSE))
    /\ pending' = Tail(pending)
    /\ UNCHANGED <<entry, pc, watch_remnants, catalog, signal, channel, page,
                   product_list, offer_ids, stocks, prices, report, calls>>

UpdateStocksFails ==
    /\ pc = "update_stocks" /\ pending # <<>>
    /\ \E exc \in TransportErrors :
         /\ log' = Append(log, Request("update_stocks", Head(pending), FALSE))
         /\ Throw(exc)
    /\ UNCHANGED <<entry, watch_remnants, catalog, signal, channel, page, product_list,
                   offer_ids, stocks, prices, pending, calls>>

\* The statement after the stock loop.  upload_stocks returns
\* (not_empty, stocks); the mains go on to the prices.
StocksUpdated ==
    /\ pc = "update_stocks" /\ pending = <<>>
    /\ pc' = IF entry = "seller.main" THEN "create_prices"
             ELSE IF entry = "market.main" THEN "upload_prices"
             ELSE "done"
    /\ calls' = IF entry = "seller.upload_stocks"
                THEN <<[fn |-> entry,
                        ret |-> <<SelectSeq(stocks, LAMBDA stock : stock.stock # 0), stocks>>]>>
                ELSE IF entry = "market.upload_stocks"
                THEN <<[fn |-> entry,
                        ret |-> <<SelectSeq(stocks, LAMBDA stock : stock.items[1].count # 0),
                                  stocks>>]>>
                ELSE calls
    /\ UNCHANGED <<entry, watch_remnants, catalog, signal, channel, page, product_list,
                   offer_ids, stocks, prices, pending, log, report>>

(***************************************************************************)
(* prices = create_prices(...); list(divide(prices, size))                 *)
(***************************************************************************)
\* seller.py 362-363 (main, 900 a batch) and 316-317 (upload_prices, 1000).
\* main passes the list create_stocks has worked on.
SellerCreatePrices ==
    /\ entry \in SellerEntries /\ pc = "create_prices"
    /\ LET ret == seller_create_prices(watch_remnants, offer_ids) IN
         /\ prices' = ret.value
         /\ pending' = divide(ret.value, IF entry = "seller.main" THEN 900 ELSE 1000)
         /\ pc' = "update_price"
    /\ UNCHANGED <<entry, watch_remnants, catalog, signal, channel, page, product_list,
                   offer_ids, stocks, log, report, calls>>

\* market.py 283-284 (upload_prices, awaited by its caller).
MarketCreatePrices ==
    /\ entry = "market.upload_prices" /\ pc = "create_prices"
    /\ LET ret == market_create_prices(watch_remnants, offer_ids) IN
         IF ret.raised # ""
         THEN Throw(ret.raised) /\ UNCHANGED <<prices, pending>>
         ELSE /\ prices' = ret.value
              /\ pending' = divide(ret.value, 500)
              /\ pc' = "update_price"
              /\ UNCHANGED report
    /\ UNCHANGED <<entry, watch_remnants, catalog, signal, channel, page, product_list,
                   offer_ids, stocks, log, calls>>

UpdatePrice ==
    /\ pc = "update_price" /\ pending # <<>>
    /\ log' = Append(log, Request("update_price", Head(pending), TRUE))
    /\ pending' = Tail(pending)
    /\ UNCHANGED <<entry, pc, watch_remnants, catalog, signal, channel, page,
                   product_list, offer_ids, stocks, prices, report, calls>>

UpdatePriceFails ==
    /\ pc = "update_price" /\ pending # <<>>
    /\ \E exc \in TransportErrors :
         /\ log' = Append(log, Request("update_price", Head(pending), FALSE))
         /\ Throw(exc)
    /\ UNCHANGED <<entry, watch_remnants, catalog, signal, channel, page, product_list,
                   offer_ids, stocks, prices, pending, calls>>

\* The statement after the price loop: upload_prices returns prices, main ends.
PricesUpdated ==
    /\ pc = "update_price" /\ pending = <<>>
    /\ pc' = "done"
    /\ calls' = IF entry \in {"seller.upload_prices", "market.upload_prices"}
                THEN <<[fn |-> entry, ret |-> prices]>>
                ELSE calls
    /\ UNCHANGED <<entry, watch_remnants, catalog, signal, channel, page, product_list,
                   offer_ids, stocks, prices, pending, log, report>>

(***************************************************************************)
(* market.main, lines 339 and 348: upload_prices(...) is a coroutine       *)
(* function (async def, line 262) called without await from a plain def.   *)
(* The call builds a coroutine object that nothing runs: no statement of   *)
(* upload_prices executes.  After the FBS call main turns to DBS.          *)
(***************************************************************************)
UploadPricesNotAwaited ==
    /\ entry = "market.main" /\ pc = "upload_prices"
    /\ IF channel = "fbs"
       THEN /\ channel' = "dbs"
            /\ pc' = "get_offer_ids"
            /\ page' = ""
            /\ product_list' = <<>>
       ELSE /\ pc' = "done"
            /\ UNCHANGED <<channel, page, product_list>>
    /\ UNCHANGED <<entry, watch_remnants, catalog, signal, offer_ids, stocks, prices,
                   pending, log, report, calls>>

(***************************************************************************)
(* Spec: one run of an entry point against the marketplaces.               *)
(***************************************************************************)
\* The feeds of a run: none, the end-to-end scenario of the specification,
\* a repeated code, an int code with a price that has no digit before its
\* ".", a quantity that is no integer.
SyncFeeds ==
    { <<>>,
      <<Record(PyStr("A1"), PyStr(">10"), Price100x), Record(PyStr("A2"), PyStr("1"), Price50x)>>,
      <<Record(PyStr("A1"), PyStr("7"), Price5990), Record(PyStr("A1"), PyStr(">10"), Price100x)>>,
      <<Record(PyInt(15), PyStr("15"), Price100rub), Record(PyStr("A3"), PyInt(0), PriceNoDigit)>>,
      <<Record(PyStr("A1"), PyStr(">10"), Price100x), Record(PyStr("A3"), PyStr(""), Price50x)>> }

\* The DBS catalogs of a market.main run (its FBS catalog is any remote list).
DbsLists == { <<>>, <<"A1">>, <<"A3", "A1">> }

Only(ch, lst) == [c \in Channels |-> IF c = ch THEN lst ELSE <<>>]

Started(first) ==
    /\ pc = first
    /\ page = ""
    /\ product_list = <<>>
    /\ offer_ids = <<>>
    /\ stocks = <<>>
    /\ prices = <<>>
    /\ pending = <<>>
    /\ log = <<>>
    /\ report = ""
    /\ calls = <<>>

Init ==
    /\ watch_remnants \in SyncFeeds
    /\ signal \in Signals
    /\ \/ /\ entry \in {"seller.main", "seller.upload_prices", "seller.upload_stocks"}
          /\ channel = "seller"
          /\ \E lst \in RemoteLists : catalog = Only("seller", lst)
          /\ Started("get_offer_ids")
       \/ /\ entry \in {"market.upload_prices", "market.upload_stocks"}
          /\ channel \in {"fbs", "dbs"}
          /\ \E lst \in RemoteLists : catalog = Only(channel, lst)
          /\ Started("get_offer_ids")
       \/ /\ entry = "market.main"
          /\ channel = "fbs"
          /\ \E fbs \in RemoteLists, dbs \in DbsLists :
                 catalog = [c \in Channels |->
                               IF c = "fbs" THEN fbs ELSE IF c = "dbs" THEN dbs ELSE <<>>]
          /\ Started("download_stock")

Next ==
    \/ SellerGetProductList
    \/ MarketGetProductList
    \/ GetProductListFails
    \/ DownloadStock
    \/ DownloadStockFails
    \/ SellerCreateStocks
    \/ MarketCreateStocks
    \/ UpdateStocks
    \/ UpdateStocksFails
    \/ StocksUpdated
    \/ SellerCreatePrices
    \/ MarketCreatePrices
    \/ UpdatePrice
    \/ UpdatePriceFails
    \/ PricesUpdated
    \/ UploadPricesNotAwaited

Spec == Init /\ [][Next]_vars

(***************************************************************************)
(* PagerSpec: one call of get_offer_ids of either channel.  The loop is    *)
(* the only thread of control and every request it issues returns or       *)
(* raises, so a turn that can be taken is taken.                           *)
(***************************************************************************)
PagerInit ==
    /\ watch_remnants = <<>>
    /\ signal \in Signals
    /\ \/ entry = "seller.get_offer_ids" /\ channel = "seller"
       \/ entry = "market.get_offer_ids" /\ channel = "fbs"
    /\ \E lst \in RemoteLists : catalog = Only(channel, lst)
    /\ Started("get_offer_ids")

PagerNext ==
    \/ SellerGetProductList
    \/ MarketGetProductList
    \/ GetProductListFails

PagerSpec == PagerInit /\ [][PagerNext]_vars /\ WF_vars(PagerNext)

\* The last thing that happened is a page arriving for the current channel.
PageArrived ==
    /\ log # <<>>
    /\ log[Len(log)].op = "get_product_list"
    /\ log[Len(log)].ch = channel
    /\ log[Len(log)].ok

\* The completion signals a response can carry, as the loop's state shows
\* them once the page is taken in.
EmptyCursorGiven == page = ""
TotalReachedGiven ==
    signal \in {"total", "both"} /\ Len(catalog[channel]) = Len(product_list)

(***************************************************************************)
(* C5 as stated: the loop of either channel stops on whichever completion  *)
(* signal arrives, an empty next cursor or a total equal to the number of  *)
(* items accumulated: it is never still looping after such a response.     *)
(***************************************************************************)
C5_StopsOnEitherSignal ==
    (PageArrived /\ (EmptyCursorGiven \/ TotalReachedGiven)) => pc # "get_offer_ids"

(***************************************************************************)
(* C5 amended: seller's get_offer_ids returns (or raises) after finitely   *)
(* many page requests when the endpoint gives a total equal to the size    *)
(* of the catalog, market's when the endpoint gives an empty next cursor   *)
(* on the last page.  Each loop reads its own signal only.                 *)
(***************************************************************************)
OwnSignalGiven ==
    \/ entry \in SellerEntries /\ signal \in {"total", "both"}
    \/ entry \in MarketEntries /\ signal \in {"cursor", "both"}

C5_StopsOnOwnSignal == OwnSignalGiven => <>(pc # "get_offer_ids")

\* A call has returned the catalog after two page requests.
C5_Witness ==
    /\ pc = "done" /\ report = ""
    /\ Cardinality(PageRequests) = 2
    /\ calls # <<>> /\ calls[1].ret = catalog[channel]

(***************************************************************************)
(* C2: in every sync run that produces price entries (seller.main, and     *)
(* upload_prices of either channel) their SKU set is a subset of the       *)
(* stock entries' SKU set and is exactly the feed codes that are remote    *)
(* SKUs of the channel.                                                    *)
(***************************************************************************)
FeedCodes == {str(watch_remnants[i].Kod) : i \in DOMAIN watch_remnants}

PricesProduced ==
    /\ entry \in {"seller.main", "seller.upload_prices", "market.upload_prices"}
    /\ pc = "update_price"

C2_PriceSkusAreFeedAndRemote ==
    PricesProduced =>
        LET fn == IF entry \in SellerEntries THEN "seller.create_prices"
                  ELSE "market.create_prices"
            priceSkus == {PriceSku(fn, prices[i]) : i \in DOMAIN prices}
        IN  /\ priceSkus = FeedCodes \cap Range(catalog[channel])
            /\ entry = "seller.main" =>
                   priceSkus \subseteq {stocks[i].offer_id : i \in DOMAIN stocks}

(***************************************************************************)
(* C4: after a run of seller.main or market.main in which nothing failed,  *)
(* every reconciled stock entry and every reconciled price entry of each   *)
(* channel of the run has been submitted in exactly one batch, and no      *)
(* submitted batch is larger than the size configured for its type.        *)
(***************************************************************************)
ChannelsOf(e) == IF e = "seller.main" THEN {"seller"} ELSE {"fbs", "dbs"}

\* The entries submitted for a channel and a type, batch after batch.
Submitted(ch, op) ==
    LET sent == SelectSeq(log, LAMBDA r : r.ch = ch /\ r.op = op /\ r.ok)
    IN  Flatten([i \in DOMAIN sent |-> sent[i].arg])

BatchSize(ch, op) ==
    IF ch = "seller" THEN (IF op = "update_stocks" THEN 100 ELSE 1000)
    ELSE (IF op = "update_stocks" THEN 2000 ELSE 500)

\* What reconciling the feed with the channel's catalog gives.
ReconciledStocks(ch) ==
    IF ch = "seller"
    THEN LET ret == seller_create_stocks(watch_remnants, catalog[ch])
         IN  [i \in DOMAIN ret.value |-> <<ret.value[i].offer_id, ret.value[i].stock>>]
    ELSE LET ret == market_create_stocks(watch_remnants, catalog[ch], warehouse_id(ch), 0)
         IN  [i \in DOMAIN ret.value |-> <<ret.value[i].sku, ret.value[i].items[1].count>>]

ReconciledPrices(ch) ==
    IF ch = "seller"
    THEN LET ret == seller_create_prices(watch_remnants, catalog[ch])
         IN  [i \in DOMAIN ret.value |-> <<ret.value[i].offer_id, ret.value[i].price>>]
    ELSE LET ret == market_create_prices(watch_remnants, catalog[ch])
         IN  [i \in DOMAIN ret.value |-> <<ret.value[i].id, ret.value[i].price.value>>]

SubmittedStocks(ch) ==
    LET sent == Submitted(ch, "update_stocks")
    IN  IF ch = "seller"
        THEN [i \in DOMAIN sent |-> <<sent[i].offer_id, sent[i].stock>>]
        ELSE [i \in DOMAIN sent |-> <<sent[i].sku, sent[i].items[1].count>>]

SubmittedPrices(ch) ==
    LET sent == Submitted(ch, "update_price")
    IN  IF ch = "seller"
        THEN [i \in DOMAIN sent |-> <<sent[i].offer_id, sent[i].price>>]
        ELSE [i \in DOMAIN sent |-> <<sent[i].id, sent[i].price.value>>]

C4_EveryEntrySubmittedOnce ==
    (entry \in Mains /\ pc = "done" /\ report = "") =>
        /\ \A ch \in ChannelsOf(entry) :
               /\ SubmittedStocks(ch) = ReconciledStocks(ch)
               /\ SubmittedPrices(ch) = ReconciledPrices(ch)
        /\ \A i \in DOMAIN log :
               log[i].op \in {"update_stocks", "update_price"} =>
                   Len(log[i].arg) <= BatchSize(log[i].ch, log[i].op)

(***************************************************************************)
(* C8: a page request or a batch submission that fails with a transport    *)
(* error ends the run: it is the last request the run issues (no batch     *)
(* follows it and it is not issued again), the run has stopped with the    *)
(* failure printed or raised, and after a failed page request no SKU list  *)
(* is returned and the channel has no batch submitted.                     *)
(***************************************************************************)
C8_TransportErrorAborts ==
    \A i \in DOMAIN log :
        ~log[i].ok =>
            /\ i = Len(log)
            /\ pc \in {"done", "raised"}
            /\ report \in TransportErrors \cup {Printed(exc) : exc \in TransportErrors}
            /\ ~ENABLED Next
            /\ log[i].op = "get_product_list" =>
                   /\ calls = <<>>
                   /\ \A j \in DOMAIN log :
                          log[j].ch = log[i].ch => log[j].op = "get_product_list"

\* market.main has stopped on a failed FBS stock submission, a price entry
\* and the whole DBS channel still ahead of it.
C8_Witness ==
    /\ entry = "market.main" /\ pc = "done"
    /\ Len(log) >= 2
    /\ ~log[Len(log)].ok /\ log[Len(log)].op = "update_stocks" /\ log[Len(log)].ch = "fbs"
    /\ pending # <<>>
    /\ catalog["dbs"] # <<>>
    /\ FeedCodes \cap Range(catalog["fbs"]) # {}

(***************************************************************************)
(* C11: when several feed records have the same code and that code is a    *)
(* remote SKU (named once by the remote list), the first record wins:      *)
(* create_stocks emits exactly one stock entry and create_prices exactly   *)
(* one price entry for the SKU, both computed from the first record with   *)
(* that code.                                                              *)
(***************************************************************************)
RepeatedCodes == {s \in FeedCodes : Cardinality(FeedIndices(s)) >= 2}

C11_FirstOccurrenceWins ==
    \A c \in StockCalls \cup PriceCalls :
        LET fn == calls[c].fn
            value == calls[c].ret.value
        IN  \A s \in RepeatedCodes :
                Occurrences(calls[c].offer_ids, s) = 1 =>
                    LET first == watch_remnants[Nth(FeedIndices(s), 1)]
                        entries == {i \in DOMAIN value :
                                       IF IsStocks(fn) THEN StockSku(fn, value[i]) = s
                                       ELSE PriceSku(fn, value[i]) = s}
                    IN  /\ Cardinality(entries) = 1
                        /\ \A i \in entries :
                               IF IsStocks(fn)
                               THEN StockCount(fn, value[i]) = QuantityMapping(first.Kolichestvo)
                               ELSE IF fn = "seller.create_prices"
                               THEN value[i].price = SelectSeq(SplitFirst(first.Tsena), IsDigit)
                               ELSE value[i].price.value
                                        = DigitsToInt(SelectSeq(SplitFirst(first.Tsena), IsDigit))

(***************************************************************************)
(* UploadSpec: upload_stocks / upload_prices of either channel from the    *)
(* point where get_offer_ids has returned: the list is reconciled with the *)
(* feed, cut into batches by divide, and the batches are submitted in list *)
(* order.  Besides the short feeds and lists of the runs above, the inputs *)
(* include a catalog and a feed one entry longer than the batch size of    *)
(* the entry point, so that divide yields more than one batch; the long    *)
(* catalog is reconciled with a feed of two records of one code.           *)
(***************************************************************************)
\* The i-th SKU of a long catalog; the first is "A1", a code of the feeds.
BulkSku(i) == IF i = 1 THEN "A1" ELSE ToString(1000 + i)

\* A catalog of n distinct SKUs.
BulkList(n) == [i \in 1..n |-> BulkSku(i)]

\* A feed of n records over the SKUs of BulkList(n - 1): the last record
\* repeats the code of the first, with another price.
BulkFeed(n) ==
    [i \in 1..n |->
        IF i = 1 THEN Record(PyStr("A1"), PyStr(">10"), Price100x)
        ELSE IF i = n THEN Record(PyStr("A1"), PyInt(7), Price5990)
        ELSE Record(PyStr(BulkSku(i)), PyStr("1"), Price50x)]

UploadEntries == {"seller.upload_stocks", "seller.upload_prices",
                  "market.upload_stocks", "market.upload_prices"}

UploadOp(e) ==
    IF e \in {"seller.upload_stocks", "market.upload_stocks"} THEN "update_stocks"
    ELSE "update_price"

UploadInit ==
    /\ entry \in UploadEntries
    /\ channel \in (IF entry \in SellerEntries THEN {"seller"} ELSE {"fbs", "dbs"})
    /\ signal = "both"
    /\ \/ /\ watch_remnants \in SyncFeeds
          /\ offer_ids \in RemoteLists
       \/ /\ UploadOp(entry) = "update_stocks"
          /\ watch_remnants = BulkFeed(2)
          /\ offer_ids = BulkList(BatchSize(channel, "update_stocks") + 1)
       \/ /\ UploadOp(entry) = "update_price"
          /\ watch_remnants = BulkFeed(BatchSize(channel, "update_price") + 1)
          /\ offer_ids = BulkList(BatchSize(channel, "update_price"))
    /\ catalog = Only(channel, offer_ids)
    /\ pc = AfterOfferIds
    /\ page = ""
    /\ product_list = <<>>
    /\ stocks = <<>>
    /\ prices = <<>>
    /\ pending = <<>>
    /\ log = <<>>
    /\ report = ""
    /\ calls = <<>>

UploadNext ==
    \/ SellerCreateStocks
    \/ MarketCreateStocks
    \/ UpdateStocks
    \/ UpdateStocksFails
    \/ StocksUpdated
    \/ SellerCreatePrices
    \/ MarketCreatePrices
    \/ UpdatePrice
    \/ UpdatePriceFails
    \/ PricesUpdated

UploadSpec == UploadInit /\ [][UploadNext]_vars

(***************************************************************************)
(* C12: within one channel and one entry type, any two distinct batches    *)
(* that divide produces from the reconciled list target disjoint SKU sets, *)
(* so the batches submitted in any order leave the remote catalog with the *)
(* same stock count and price for every SKU as the batches submitted in    *)
(* list order.                                                             *)
(***************************************************************************)
\* The batches of the run: those submitted so far, then those still to go.
Batches ==
    LET sent == SelectSeq(log, LAMBDA r : r.op = UploadOp(entry) /\ r.ok)
    IN  [i \in DOMAIN sent |-> sent[i].arg] \o pending

EntrySku(e) ==
    IF entry = "seller.upload_stocks" \/ entry = "seller.upload_prices" THEN e.offer_id
    ELSE IF entry = "market.upload_stocks" THEN e.sku
    ELSE e.id

EntryValue(e) ==
    IF entry = "seller.upload_stocks" THEN e.stock
    ELSE IF entry = "seller.upload_prices" THEN e.price
    ELSE IF entry = "market.upload_stocks" THEN e.items[1].count
    ELSE e.price.value

BatchSkus(batch) == {EntrySku(batch[i]) : i \in DOMAIN batch}

\* What the remote catalog holds once the entries have been applied in this
\* order: for every SKU the value of the last entry that names it.
RemoteAfter(applied) ==
    LET last == {i \in DOMAIN applied :
                    \A j \in (i + 1)..Len(applied) :
                        EntrySku(applied[j]) # EntrySku(applied[i])}
    IN  {<<EntrySku(applied[i]), EntryValue(applied[i])>> : i \in last}

C12_BatchesCommute ==
    (entry \in UploadEntries /\ pc \in {"update_stocks", "update_price"}) =>
        LET b == Batches
            in_list_order == RemoteAfter(Flatten(b))
        IN  /\ \A i, j \in DOMAIN b : i # j => BatchSkus(b[i]) \cap BatchSkus(b[j]) = {}
            /\ \A p \in Permutations(DOMAIN b) :
                   RemoteAfter(Flatten([k \in DOMAIN b |-> b[p[k]]])) = in_list_order

====
